---- MODULE Spec2Model ----
(***************************************************************************)
(* Model of leek's Slack channel, src/app/leek/api/channels/slack.py:      *)
(* get_color and send_slack (field assembly, traceback restructuring and   *)
(* best-effort delivery).                                                  *)
(*                                                                         *)
(* A Python str is a sequence of one-character strings.  A Python value    *)
(* that may be None, a str, an int or a container is a record              *)
(* [t |-> type tag, v |-> payload].                                        *)
(***************************************************************************)
EXTENDS Integers, Sequences, FiniteSets, TLC

VARIABLES app_name, event, extra, wh_url,
          STATES_EXCEPTION, STATES_SUCCESS, STATES_UNREADY,
          fields, error_lines, attachments, body, pc, posts, log, err, result

vars == <<app_name, event, extra, wh_url,
          STATES_EXCEPTION, STATES_SUCCESS, STATES_UNREADY,
          fields, error_lines, attachments, body, pc, posts, log, err, result>>

----------------------------------------------------------------------------
(* Bounds of the model. *)

\* longest sequence of trailing traceback lines that is enumerated
MaxTail == 4
\* longest args / kwargs text that is enumerated character by character
MaxArgChars == 3
\* extra characters of the longest over-long args / kwargs text
MaxOver == 100

----------------------------------------------------------------------------
(* Python values. *)

None == [t |-> "None", v |-> <<>>]
PyStrVal(s) == [t |-> "str", v |-> s]
PyInt(n) == [t |-> "int", v |-> n]
PyTuple(items) == [t |-> "tuple", v |-> items]
PyList(items) == [t |-> "list", v |-> items]
PyDict == [t |-> "dict", v |-> <<>>]

Whitespace == {" ", "\n", "\t"}

Min(S) == CHOOSE x \in S : \A y \in S : x <= y
Max(S) == CHOOSE x \in S : \A y \in S : x >= y

\* s * n
Rep(s, n) == [i \in 1..(n * Len(s)) |-> s[((i - 1) % Len(s)) + 1]]

\* str.strip(): drop leading and trailing whitespace
Strip(s) ==
    LET keep == {i \in 1..Len(s) : s[i] \notin Whitespace}
    IN  IF keep = {} THEN <<>> ELSE SubSeq(s, Min(keep), Max(keep))

\* str.split(sep) for a one-character separator: always at least one piece
Split(s, sep) ==
    LET cuts == {i \in 1..Len(s) : s[i] = sep}
        n == Cardinality(cuts)
        Cut(k) == IF k = 0 THEN 0
                  ELSE IF k = n + 1 THEN Len(s) + 1
                  ELSE CHOOSE p \in cuts : Cardinality({q \in cuts : q < p}) = k - 1
    IN  [k \in 1..(n + 1) |-> SubSeq(s, Cut(k - 1) + 1, Cut(k) - 1)]

\* sep.join(pieces)
RECURSIVE Join(_, _)
Join(pieces, sep) ==
    IF pieces = <<>> THEN <<>>
    ELSE IF Len(pieces) = 1 THEN pieces[1]
    ELSE pieces[1] \o sep \o Join(Tail(pieces), sep)

Digit(d) == <<"0", "1", "2", "3", "4", "5", "6", "7", "8", "9">>[d + 1]

RECURSIVE NatToStr(_)
NatToStr(n) ==
    IF n < 10 THEN <<Digit(n)>> ELSE NatToStr(n \div 10) \o <<Digit(n % 10)>>

\* str(n) of an int
IntToStr(n) == IF n < 0 THEN <<"-">> \o NatToStr(0 - n) ELSE NatToStr(n)

\* the items of a tuple or list display, "1, 2"
ItemsToStr(items) == Join([i \in 1..Len(items) |-> IntToStr(items[i])], <<",", " ">>)

\* str(x)
PyStr(x) ==
    CASE x.t = "None" -> <<"N", "o", "n", "e">>
      [] x.t = "str" -> x.v
      [] x.t = "int" -> IntToStr(x.v)
      [] x.t = "tuple" ->
            <<"(">> \o ItemsToStr(x.v)
                    \o (IF Len(x.v) = 1 THEN <<",">> ELSE <<>>) \o <<")">>
      [] x.t = "list" -> <<"[">> \o ItemsToStr(x.v) \o <<"]">>
      [] x.t = "dict" -> <<"{", "}">>

\* bool(x), the test of "if x:"
Truthy(x) ==
    CASE x.t = "None" -> FALSE
      [] x.t = "int" -> x.v # 0
      [] x.t = "dict" -> FALSE
      [] OTHER -> Len(x.v) > 0

\* f"{x:.2f}" of a whole number of seconds
Format2f(n) == IntToStr(n) \o <<".", "0", "0">>

----------------------------------------------------------------------------
(* get_color *)

\* variant: an unready state falls through to the last branch
get_color_NoUnready(state) ==
    IF state \in STATES_EXCEPTION THEN "danger"
    ELSE IF state \in STATES_SUCCESS THEN "good"
    ELSE "yellow"

get_color(state) ==
    IF state \in STATES_EXCEPTION THEN "danger"
    ELSE IF state \in STATES_SUCCESS THEN "good"
    ELSE IF state \in STATES_UNREADY THEN "#36C5F0"
    ELSE "yellow"

----------------------------------------------------------------------------
(* send_slack: the fields of the main attachment *)

Field(title, value, short) == [title |-> title, value |-> value, short |-> short]

\* the five unconditional fields
BaseFields(app, ev) ==
    << Field("Application", app, TRUE),
       Field("Environment", ev.app_env, TRUE),
       Field("Task worker", ev.worker, TRUE),
       Field("Task state", ev.state, TRUE),
       Field("Task uuid", ev.uuid, FALSE) >>

ExceptionField(ev) ==
    IF Truthy(ev.exception)
    THEN <<Field("Exception", ev.exception.v, FALSE)>>
    ELSE <<>>

\* variant: the test is "is not None" instead of truthiness
RuntimeFieldNotNone(ev) ==
    IF ev.runtime.t # "None"
    THEN <<Field("Runtime",
                 Format2f(ev.runtime.v) \o <<" ", "s", "e", "c", "o", "n", "d", "s">>,
                 TRUE)>>
    ELSE <<>>

RuntimeField(ev) ==
    IF Truthy(ev.runtime)
    THEN <<Field("Runtime",
                 Format2f(ev.runtime.v) \o <<" ", "s", "e", "c", "o", "n", "d", "s">>,
                 TRUE)>>
    ELSE <<>>

QueueField(ev) ==
    IF Truthy(ev.queue) THEN <<Field("Queue", ev.queue.v, TRUE)>> ELSE <<>>

\* variant: the test is truthiness instead of "is not None"
RetriesFieldTruthy(ev) ==
    IF Truthy(ev.retries)
    THEN <<Field("Retries", PyStr(ev.retries), TRUE)>>
    ELSE <<>>

RetriesField(ev) ==
    IF ev.retries.t # "None"
    THEN <<Field("Retries", PyStr(ev.retries), TRUE)>>
    ELSE <<>>

\* the texts that stand for "no arguments"
EmptyMarkers ==
    { <<"(", ")">>, <<"[", "]">>, <<"{", "}">>,
      <<"N", "o", "n", "e">>, <<"n", "u", "l", "l">> }

\* longest args / kwargs text shown in full
MaxArgLen == 500

TruncMarker ==
    <<".", ".", ".", " ", "(", "t", "r", "u", "n", "c", "a", "t", "e", "d", ")">>

\* the backquote character, written by its code point
Backquote == "U+0060"

\* f"```\n{text}\n```"
Fence == <<Backquote, Backquote, Backquote>>

CodeBlock(text) == Fence \o <<"\n">> \o text \o <<"\n">> \o Fence

\* variant: a text of exactly MaxArgLen characters is cut too
TruncateFromLimit(text) ==
    IF Len(text) >= MaxArgLen
    THEN SubSeq(text, 1, MaxArgLen) \o TruncMarker
    ELSE text

\* text[:MaxArgLen] + "... (truncated)" when text is too long
Truncate(text) ==
    IF Len(text) > MaxArgLen
    THEN SubSeq(text, 1, MaxArgLen) \o TruncMarker
    ELSE text

\* variant: the text is compared with the markers without being stripped
ArgumentsFieldNoStrip(ev) ==
    IF Truthy(ev.args)
    THEN LET args_text == PyStr(ev.args)
         IN  IF args_text # <<>> /\ args_text \notin EmptyMarkers
             THEN <<Field("Arguments", CodeBlock(Truncate(args_text)), FALSE)>>
             ELSE <<>>
    ELSE <<>>

ArgumentsField(ev) ==
    IF Truthy(ev.args)
    THEN LET args_text == Strip(PyStr(ev.args))
         IN  IF args_text # <<>> /\ args_text \notin EmptyMarkers
             THEN <<Field("Arguments", CodeBlock(Truncate(args_text)), FALSE)>>
             ELSE <<>>
    ELSE <<>>

KeywordArgumentsField(ev) ==
    IF Truthy(ev.kwargs)
    THEN LET kwargs_text == Strip(PyStr(ev.kwargs))
         IN  IF kwargs_text # <<>> /\ kwargs_text \notin EmptyMarkers
             THEN <<Field("Keyword Arguments", CodeBlock(Truncate(kwargs_text)), FALSE)>>
             ELSE <<>>
    ELSE <<>>

\* dict.get(key): None when the key is absent
DictGet(d, key) == IF key \in DOMAIN d THEN d[key] ELSE None

NoteField(ex) ==
    IF Truthy(DictGet(ex, "note"))
    THEN <<Field("Note", DictGet(ex, "note").v, FALSE)>>
    ELSE <<>>

BuildFields(app, ev, ex) ==
    BaseFields(app, ev) \o ExceptionField(ev) \o RuntimeField(ev) \o QueueField(ev)
        \o RetriesField(ev) \o ArgumentsField(ev) \o KeywordArgumentsField(ev)
        \o NoteField(ex)

----------------------------------------------------------------------------
(* send_slack: the attachments *)

\* settings.LEEK_WEB_URL
LEEK_WEB_URL == <<"h", "t", "t", "p", ":", "/", "/", "w">>

MainAttachment(app, ev, ex) ==
    [ color |-> get_color(ev.state),
      title |-> <<"T", "a", "s", "k", ":", " ">> \o ev.name,
      title_link |-> LEEK_WEB_URL \o <<"/", "t", "a", "s", "k", "?", "a", "p", "p", "=">>
                        \o app \o <<"&", "u", "u", "i", "d", "=">> \o ev.uuid,
      fields |-> BuildFields(app, ev, ex) ]

\* the loop that collects the error lines: i runs from len(lines) - 1 down to
\* stop + 1 (0-based), non-blank lines are put in front of acc
RECURSIVE ScanErrorLines(_, _, _, _)
ScanErrorLines(lines, i, stop, acc) ==
    IF i <= stop THEN acc
    ELSE IF Strip(lines[i + 1]) # <<>>
         THEN LET acc2 == <<lines[i + 1]>> \o acc
              IN  IF Len(acc2) >= 3 THEN acc2
                  ELSE ScanErrorLines(lines, i - 1, stop, acc2)
         ELSE ScanErrorLines(lines, i - 1, stop, acc)

\* range(len(lines) - 1, max(len(lines) - 4, -1), -1)
ScanStop(lines) == Max({Len(lines) - 4, -1})

ErrorLines(lines) == ScanErrorLines(lines, Len(lines) - 1, ScanStop(lines), <<>>)

\* the string literal that is repeated to draw the separator: the three
\* characters U+00E2, U+201D, U+20AC as the source file is encoded
RuleLiteral == <<"U+00E2", "U+201D", "U+20AC">>

\* a traceback with more lines than this is restructured
ShortTraceback == 10

RuleCount == 40

FullTracebackLabel ==
    <<"F", "u", "l", "l", " ", "t", "r", "a", "c", "e", "b", "a", "c", "k", ":">>

TracebackLines(tb) == Split(Strip(tb), "\n")

\* variant: a traceback of exactly ShortTraceback lines is restructured too
TracebackTextFromLimit(tb) ==
    LET lines == TracebackLines(tb)
        error_preview == Join(ErrorLines(lines), <<"\n">>)
    IN  IF Len(lines) >= ShortTraceback
        THEN error_preview \o <<"\n", "\n">> \o Rep(RuleLiteral, RuleCount)
                \o <<"\n", "\n">> \o FullTracebackLabel \o <<"\n">>
                \o Join(lines, <<"\n">>)
        ELSE tb

TracebackText(tb) ==
    LET lines == TracebackLines(tb)
        error_preview == Join(ErrorLines(lines), <<"\n">>)
    IN  IF Len(lines) > ShortTraceback
        THEN error_preview \o <<"\n", "\n">> \o Rep(RuleLiteral, RuleCount)
                \o <<"\n", "\n">> \o FullTracebackLabel \o <<"\n">>
                \o Join(lines, <<"\n">>)
        ELSE tb

\* variant: the traceback attachment is always red
TracebackAttachmentDanger(ev) ==
    IF Truthy(ev.traceback)
    THEN << [ color |-> "danger",
              title |-> "Traceback",
              text |-> CodeBlock(TracebackText(ev.traceback.v)) ] >>
    ELSE <<>>

TracebackAttachment(ev) ==
    IF Truthy(ev.traceback)
    THEN << [ color |-> get_color(ev.state),
              title |-> "Traceback",
              text |-> CodeBlock(TracebackText(ev.traceback.v)) ] >>
    ELSE <<>>

BuildAttachments(app, ev, ex) == <<MainAttachment(app, ev, ex)>> \o TracebackAttachment(ev)

----------------------------------------------------------------------------
(* send_slack: delivery *)

\* what requests.post(...) can do: answer with a status, or raise
Statuses == {200, 302, 404, 503}
TransportErrors == {"ConnectionError", "Timeout"}

PostOutcomes ==
    [kind : {"response"}, status : Statuses, exc : {"-"}]
        \cup [kind : {"raise"}, status : {0}, exc : TransportErrors]

\* Response.raise_for_status(): HTTPError for a 4xx or 5xx status
RaisesForStatus(status) == status >= 400 /\ status < 600

\* the exception the try block ends with, "-" when it ends normally
Raised(o) ==
    IF o.kind = "raise" THEN o.exc
    ELSE IF RaisesForStatus(o.status) THEN "HTTPError"
    ELSE "-"

\* variant: the handler names HTTPError only
CaughtHTTPErrorOnly(exc) == exc = "HTTPError"

\* "except Exception": the classes of the client's errors are all caught
Caught(exc) == exc \in {"HTTPError", "ConnectionError", "Timeout"}

----------------------------------------------------------------------------
(* The inputs of a call. *)

FAILED == <<"F", "A", "I", "L", "E", "D">>
SUCCEEDED == <<"S", "U", "C", "C", "E", "E", "D", "E", "D">>
STARTED == <<"S", "T", "A", "R", "T", "E", "D">>
StateLabels == {FAILED, SUCCEEDED, STARTED}

AppName == <<"a", "p", "p">>
WebhookUrl == <<"h", "t", "t", "p", "s", ":", "/", "/", "h">>

BaseEvent ==
    [ name |-> <<"t", "a", "s", "k">>, uuid |-> <<"u", "1">>, worker |-> <<"w", "1">>,
      app_env |-> <<"p", "r", "o", "d">>, state |-> FAILED,
      exception |-> None, runtime |-> None, queue |-> None, retries |-> None,
      args |-> None, kwargs |-> None, traceback |-> None ]

NoExtra == <<>>
Extras == {NoExtra, [note |-> None], [note |-> PyStrVal(<<>>)], [note |-> PyStrVal(<<"n">>)]}

\* all sequences over S of length at most n
SeqsUpTo(S, n) == UNION {[1..k -> S] : k \in 0..n}

Pads == {<<>>, <<" ">>}

ArgAlphabet == {" ", "(", ")", "x"}

ArgTexts ==
    SeqsUpTo(ArgAlphabet, MaxArgChars)
        \cup {l \o m \o r : l \in Pads, m \in EmptyMarkers, r \in Pads}
        \cup {l \o Rep(<<"x">>, n) \o r :
                l \in Pads, r \in Pads,
                n \in {MaxArgLen - 1, MaxArgLen, MaxArgLen + 1, MaxArgLen + MaxOver}}

ArgValues ==
    {None, PyTuple(<<>>), PyTuple(<<1>>), PyTuple(<<1, 2>>),
     PyList(<<>>), PyList(<<1>>), PyDict}
        \cup {PyStrVal(s) : s \in ArgTexts}

LineAlphabet == {<<>>, <<" ">>, <<"a">>, <<" ", "b">>}
FillerLine == <<"x">>
FillerCounts == {0, ShortTraceback - 3, ShortTraceback - 2}
TracebackPads == {<< <<>>, <<>> >>, << <<"\n", " ">>, <<" ", "\n">> >>}

TracebackTexts ==
    {p[1] \o Join([i \in 1..k |-> FillerLine] \o t, <<"\n">>) \o p[2] :
        p \in TracebackPads, k \in FillerCounts, t \in SeqsUpTo(LineAlphabet, MaxTail)}

TracebackValues == {None} \cup {PyStrVal(s) : s \in TracebackTexts}

\* a classification with disjoint sets, used where the sets are not the subject
DefaultSets ==
    /\ STATES_EXCEPTION = {FAILED}
    /\ STATES_SUCCESS = {SUCCEEDED}
    /\ STATES_UNREADY = {STARTED}

\* the state of a call before its first statement
Locals ==
    /\ app_name = AppName
    /\ wh_url = WebhookUrl
    /\ fields = <<>>
    /\ error_lines = <<>>
    /\ attachments = <<>>
    /\ body = <<>>
    /\ pc = "render"
    /\ posts = <<>>
    /\ log = <<>>
    /\ err = "-"
    /\ result = "running"

\* every classification, overlapping ones included, and every state label
InitColor ==
    /\ STATES_EXCEPTION \in SUBSET StateLabels
    /\ STATES_SUCCESS \in SUBSET StateLabels
    /\ STATES_UNREADY \in SUBSET StateLabels
    /\ \E s \in StateLabels, tb \in {None, PyStrVal(<<"e">>)} :
          event = [BaseEvent EXCEPT !.state = s, !.traceback = tb]
    /\ extra = NoExtra

\* the presence of every optional field
InitFields ==
    /\ DefaultSets
    /\ \E s \in {FAILED, SUCCEEDED},
          e \in {None, PyStrVal(<<>>), PyStrVal(<<"E">>)},
          rt \in {None, PyInt(0), PyInt(3)},
          q \in {None, PyStrVal(<<>>), PyStrVal(<<"q">>)},
          re \in {None, PyInt(0), PyInt(7), PyInt(12), PyInt(-1)},
          a \in {None, PyStrVal(<<"x">>)},
          k \in {None, PyStrVal(<<"y">>)},
          tb \in {None, PyStrVal(<<"a", "\n", "b", "\n", "c">>)} :
          event = [BaseEvent EXCEPT !.state = s, !.exception = e, !.runtime = rt,
                                    !.queue = q, !.retries = re, !.args = a,
                                    !.kwargs = k, !.traceback = tb]
    /\ extra \in Extras

\* args and kwargs
InitArgs ==
    /\ DefaultSets
    /\ \E a \in ArgValues, b \in {None, PyStrVal(<<"y">>)} :
          \/ event = [BaseEvent EXCEPT !.args = a, !.kwargs = b]
          \/ event = [BaseEvent EXCEPT !.args = b, !.kwargs = a]
    /\ extra = NoExtra

\* tracebacks
InitTraceback ==
    /\ DefaultSets
    /\ \E tb \in TracebackValues : event = [BaseEvent EXCEPT !.traceback = tb]
    /\ extra = NoExtra

Init == Locals /\ (InitColor \/ InitFields \/ InitArgs \/ InitTraceback)

----------------------------------------------------------------------------
(* The steps of send_slack. *)

\* lines 24-178: the fields, the attachments and the body
Render ==
    /\ pc = "render"
    /\ fields' = BuildFields(app_name, event, extra)
    /\ error_lines' = IF Truthy(event.traceback)
                      THEN ErrorLines(TracebackLines(event.traceback.v))
                      ELSE <<>>
    /\ attachments' = BuildAttachments(app_name, event, extra)
    /\ body' = [attachments |-> attachments']
    /\ pc' = "post"
    /\ UNCHANGED <<app_name, event, extra, wh_url, STATES_EXCEPTION, STATES_SUCCESS,
                   STATES_UNREADY, posts, log, err, result>>

\* lines 179-185: requests.post(...).raise_for_status() inside the try block
Post ==
    /\ pc = "post"
    /\ \E o \in PostOutcomes :
          /\ posts' = Append(posts, [url |-> wh_url, json |-> body, outcome |-> o])
          /\ err' = Raised(o)
          /\ IF Raised(o) = "-" THEN pc' = "return" /\ result' = result
             ELSE IF Caught(Raised(o)) THEN pc' = "except" /\ result' = result
             ELSE pc' = "done" /\ result' = "raised"
    /\ UNCHANGED <<app_name, event, extra, wh_url, STATES_EXCEPTION, STATES_SUCCESS,
                   STATES_UNREADY, fields, error_lines, attachments, body, log>>

\* line 186: the handler logs the error
LogError ==
    /\ pc = "except"
    /\ log' = Append(log, [level |-> "error", exc |-> err])
    /\ pc' = "return"
    /\ UNCHANGED <<app_name, event, extra, wh_url, STATES_EXCEPTION, STATES_SUCCESS,
                   STATES_UNREADY, fields, error_lines, attachments, body, posts, err, result>>

\* the end of the function body
Return ==
    /\ pc = "return"
    /\ pc' = "done"
    /\ result' = "returned"
    /\ UNCHANGED <<app_name, event, extra, wh_url, STATES_EXCEPTION, STATES_SUCCESS,
                   STATES_UNREADY, fields, error_lines, attachments, body, posts, log, err>>

Next == Render \/ Post \/ LogError \/ Return

Spec == Init /\ [][Next]_vars

----------------------------------------------------------------------------
(* Vocabulary of the properties, written without the operators of the      *)
(* rendering above wherever a second reading of the rule is possible.      *)

Rendered == pc # "render"

MainFields == attachments[1].fields

HasMainField(title) == \E i \in 1..Len(MainFields) : MainFields[i].title = title

MainField(title) ==
    MainFields[CHOOSE i \in 1..Len(MainFields) : MainFields[i].title = title]

RECURSIVE FirstKept(_, _)
FirstKept(s, i) ==
    IF i > Len(s) THEN i
    ELSE IF s[i] \in Whitespace THEN FirstKept(s, i + 1) ELSE i

RECURSIVE LastKept(_, _)
LastKept(s, j) ==
    IF j < 1 THEN j
    ELSE IF s[j] \in Whitespace THEN LastKept(s, j - 1) ELSE j

\* s without its surrounding whitespace
Trimmed(s) ==
    LET i == FirstKept(s, 1)
        j == LastKept(s, Len(s))
    IN  IF i > j THEN <<>> ELSE SubSeq(s, i, j)

EndsWith(s, suffix) ==
    /\ Len(s) >= Len(suffix)
    /\ SubSeq(s, Len(s) - Len(suffix) + 1, Len(s)) = suffix

\* text between the opening and the closing fence of a code block
InBlock(text) ==
    <<"U+0060", "U+0060", "U+0060", "\n">> \o text \o <<"\n", "U+0060", "U+0060", "U+0060">>

NonEmptyStr(x) == x.t = "str" /\ x.v # <<>>

\* number of lines of a traceback: trimmed, then split on newlines
NumLines(tb) ==
    LET t == Trimmed(tb) IN 1 + Cardinality({i \in 1..Len(t) : t[i] = "\n"})

DigitValue(c) ==
    CASE c = "0" -> 0 [] c = "1" -> 1 [] c = "2" -> 2 [] c = "3" -> 3 [] c = "4" -> 4
      [] c = "5" -> 5 [] c = "6" -> 6 [] c = "7" -> 7 [] c = "8" -> 8 [] c = "9" -> 9

RECURSIVE DigitsValue(_)
DigitsValue(s) ==
    IF s = <<>> THEN 0
    ELSE 10 * DigitsValue(SubSeq(s, 1, Len(s) - 1)) + DigitValue(s[Len(s)])

IsDigits(s) ==
    /\ s # <<>>
    /\ \A i \in 1..Len(s) : s[i] \in {"0", "1", "2", "3", "4", "5", "6", "7", "8", "9"}
    /\ Len(s) > 1 => s[1] # "0"

\* s is the decimal string of the integer n
IsDecimalOf(s, n) ==
    IF n < 0
    THEN /\ Len(s) >= 2
         /\ s[1] = "-"
         /\ IsDigits(Tail(s))
         /\ DigitsValue(Tail(s)) = 0 - n
    ELSE IsDigits(s) /\ DigitsValue(s) = n

----------------------------------------------------------------------------
(* C1 *)

\* the POST failed: the client raised, or the status is a 4xx / 5xx error status
\* (the statuses raise_for_status turns into an error)
PostFailed(o) == o.kind = "raise" \/ (o.status >= 400 /\ o.status <= 599)

----------------------------------------------------------------------------
(* C2 *)

C2_Disjoint ==
    /\ STATES_EXCEPTION \cap STATES_SUCCESS = {}
    /\ STATES_EXCEPTION \cap STATES_UNREADY = {}
    /\ STATES_SUCCESS \cap STATES_UNREADY = {}

\* C2: get_color is total, and when the three state sets are pairwise disjoint
\* it gives every state label exactly one tag: "danger" iff the label is in the
\* exception set, "good" iff in the success set, "#36C5F0" iff in the unready
\* set, "yellow" iff in none of them.
C2_ColorOfState ==
    \A s \in StateLabels :
        /\ get_color(s) \in {"danger", "good", "#36C5F0", "yellow"}
        /\ C2_Disjoint =>
              /\ get_color(s) = "danger" <=> s \in STATES_EXCEPTION
              /\ get_color(s) = "good" <=> s \in STATES_SUCCESS
              /\ get_color(s) = "#36C5F0" <=> s \in STATES_UNREADY
              /\ get_color(s) = "yellow" <=>
                    s \notin (STATES_EXCEPTION \cup STATES_SUCCESS \cup STATES_UNREADY)

\* disjoint non-empty sets, and a rendered event in an unready state
C2_Witness ==
    /\ Rendered
    /\ C2_Disjoint
    /\ STATES_EXCEPTION # {} /\ STATES_SUCCESS # {} /\ STATES_UNREADY # {}
    /\ event.state \in STATES_UNREADY
    /\ attachments[1].color = "#36C5F0"

----------------------------------------------------------------------------
(* C3 *)

C3_Markers ==
    { <<"(", ")">>, <<"[", "]">>, <<"{", "}">>,
      <<"N", "o", "n", "e">>, <<"n", "u", "l", "l">> }

C3_Includable(x) ==
    LET t == Trimmed(PyStr(x)) IN t # <<>> /\ t \notin C3_Markers

C3_Shown(t) ==
    IF Len(t) > 500
    THEN SubSeq(t, 1, 500)
            \o <<".", ".", ".", " ", "(", "t", "r", "u", "n", "c", "a", "t", "e", "d", ")">>
    ELSE t

C3_Rule(title, x) ==
    /\ HasMainField(title) <=> C3_Includable(x)
    /\ HasMainField(title) =>
          MainField(title) =
              [title |-> title, value |-> InBlock(C3_Shown(Trimmed(PyStr(x)))),
               short |-> FALSE]

\* C3: the Arguments field (and, by the same rule on event.kwargs, the Keyword
\* Arguments field) is in the main attachment iff the text of the value, once
\* trimmed, is not empty and is none of "()", "[]", "{}", "None", "null"; when it
\* is there it is a full-width field whose value is the text in a code block.
C3_ArgumentsIncluded ==
    Rendered =>
        /\ C3_Rule("Arguments", event.args)
        /\ C3_Rule("Keyword Arguments", event.kwargs)

\* args is a marker with spaces around it and is left out, kwargs is shown
C3_Witness ==
    /\ Rendered
    /\ event.args = PyStrVal(<<" ", "(", ")", " ">>)
    /\ event.kwargs = PyStrVal(<<"y">>)
    /\ ~HasMainField("Arguments")
    /\ HasMainField("Keyword Arguments")

----------------------------------------------------------------------------
(* C4 *)

C4_Marker ==
    <<".", ".", ".", " ", "(", "t", "r", "u", "n", "c", "a", "t", "e", "d", ")">>

C4_OriginalRule(title, x) ==
    HasMainField(title) =>
        LET t == Trimmed(PyStr(x))
            value == MainField(title).value
        IN  IF Len(t) > 500
            THEN Len(value) = 500 + Len(C4_Marker) /\ EndsWith(value, C4_Marker)
            ELSE ~EndsWith(value, C4_Marker)

\* C4 as stated: for an args or kwargs text longer than 500 characters once
\* trimmed, the rendered field value has length exactly 500 + len(marker) and
\* ends with the marker "... (truncated)"; a text of 500 characters or fewer
\* carries no marker.
C4_Original ==
    Rendered =>
        /\ C4_OriginalRule("Arguments", event.args)
        /\ C4_OriginalRule("Keyword Arguments", event.kwargs)

C4_AmendedRule(title, x) ==
    HasMainField(title) =>
        LET t == Trimmed(PyStr(x))
            value == MainField(title).value
            inner == SubSeq(value, 5, Len(value) - 4)
        IN  /\ value = InBlock(inner)
            /\ IF Len(t) > 500
               THEN /\ Len(inner) = 500 + Len(C4_Marker)
                    /\ SubSeq(inner, 1, 500) = SubSeq(t, 1, 500)
                    /\ EndsWith(inner, C4_Marker)
               ELSE inner = t

\* C4 amended: the field value is a code block; for a text longer than 500
\* characters once trimmed, the text inside the block is the first 500
\* characters followed by the marker "... (truncated)", so it has length exactly
\* 500 + len(marker) and ends with the marker (the value itself is 8 characters
\* longer and ends with the closing fence); a text of 500 characters or fewer
\* is inside the block unchanged, with nothing appended.
C4_Truncation ==
    Rendered =>
        /\ C4_AmendedRule("Arguments", event.args)
        /\ C4_AmendedRule("Keyword Arguments", event.kwargs)

\* an over-long args text with spaces around it has been rendered and cut
C4_Witness ==
    /\ Rendered
    /\ event.args.t = "str"
    /\ Len(event.args.v) = MaxArgLen + MaxOver + 2
    /\ Len(Trimmed(event.args.v)) = MaxArgLen + MaxOver
    /\ HasMainField("Arguments")
    /\ Len(MainField("Arguments").value) = MaxArgLen + Len(C4_Marker) + 8

----------------------------------------------------------------------------
(* C5 *)

\* C5: the Retries field is in the main attachment iff event.retries is not
\* None; retries = 0 gives the value "0", any other integer its decimal string.
C5_Retries ==
    Rendered =>
        /\ HasMainField("Retries") <=> event.retries.t # "None"
        /\ HasMainField("Retries") =>
              /\ IsDecimalOf(MainField("Retries").value, event.retries.v)
              /\ event.retries.v = 0 => MainField("Retries").value = <<"0">>

\* an event with retries = 0 has been rendered with its Retries field
C5_Witness ==
    /\ Rendered
    /\ event.retries.t = "int"
    /\ event.retries.v = 0
    /\ HasMainField("Retries")
    /\ MainField("Retries").value = <<"0">>

----------------------------------------------------------------------------
(* C6, C7, C9: the traceback attachment *)

HasTraceback == NonEmptyStr(event.traceback)

\* the text inside the code block of the traceback attachment
DisplayedTraceback ==
    LET text == attachments[2].text IN SubSeq(text, 5, Len(text) - 4)

\* the characters of the displayed text
DisplayedChars == {DisplayedTraceback[i] : i \in 1..Len(DisplayedTraceback)}

\* C6 as stated: for a traceback of more than 10 lines the displayed text is the
\* error excerpt, a separator line of 40 repetitions of one rule character, the
\* label "Full traceback:", and then the original traceback text, unchanged,
\* with the leading and trailing whitespace it had.
C6_Original ==
    (Rendered /\ HasTraceback /\ NumLines(event.traceback.v) > 10) =>
        \E c \in DisplayedChars :
            DisplayedTraceback =
                Join(error_lines, <<"\n">>) \o <<"\n", "\n">>
                    \o [i \in 1..40 |-> c] \o <<"\n", "\n">>
                    \o <<"F", "u", "l", "l", " ", "t", "r", "a", "c", "e", "b", "a", "c", "k", ":">>
                    \o <<"\n">> \o event.traceback.v

\* C7: a non-empty traceback of 10 lines or fewer (trimmed, then split on
\* newlines) is displayed inside the code block exactly as supplied, whitespace
\* included; 10 lines are still displayed verbatim, 11 lines or more are not.
C7_ShortVerbatim ==
    (Rendered /\ HasTraceback) =>
        /\ attachments[2].text = InBlock(DisplayedTraceback)
        /\ NumLines(event.traceback.v) <= 10 => DisplayedTraceback = event.traceback.v
        /\ NumLines(event.traceback.v) > 10 => DisplayedTraceback # event.traceback.v

\* a traceback of exactly 10 lines, with whitespace around it, shown verbatim
C7_Witness ==
    /\ Rendered
    /\ HasTraceback
    /\ NumLines(event.traceback.v) = 10
    /\ Trimmed(event.traceback.v) # event.traceback.v
    /\ DisplayedTraceback = event.traceback.v

NonBlankLines(lines) == SelectSeq(lines, LAMBDA l : Trimmed(l) # <<>>)

LastUpTo3(lines) ==
    LET n == Len(lines)
    IN  SubSeq(lines, (IF n > 3 THEN n - 2 ELSE 1), n)

\* C9 as stated: for a non-empty traceback the error excerpt is the last
\* min(3, n) non-blank lines of the trimmed traceback, in their order, n being
\* the number of its non-blank lines: blank lines among the last lines do not
\* shorten the excerpt.
C9_Original ==
    (Rendered /\ HasTraceback) =>
        error_lines = LastUpTo3(NonBlankLines(Split(Trimmed(event.traceback.v), "\n")))

----------------------------------------------------------------------------
(* C8 *)

\* C8: the message has one or two attachments, the main one first and a second
\* one, titled Traceback, iff event.traceback is truthy; both have the color
\* get_color(event.state).  An event in an exception state with an exception,
\* no runtime and a 3-line traceback gives two attachments, both "danger", and a
\* main attachment with an Exception field and no Runtime field.
C8_Attachments ==
    Rendered =>
        /\ body = [attachments |-> attachments]
        /\ Len(attachments) \in {1, 2}
        /\ Len(attachments) = 2 <=> HasTraceback
        /\ DOMAIN attachments[1] = {"color", "title", "title_link", "fields"}
        /\ attachments[1].fields = fields
        /\ \A i \in 1..Len(attachments) : attachments[i].color = get_color(event.state)
        /\ Len(attachments) = 2 =>
              /\ DOMAIN attachments[2] = {"color", "title", "text"}
              /\ attachments[2].title = "Traceback"
        /\ ( /\ event.state \in STATES_EXCEPTION
             /\ NonEmptyStr(event.exception)
             /\ event.runtime.t = "None"
             /\ HasTraceback
             /\ NumLines(event.traceback.v) = 3 ) =>
              /\ Len(attachments) = 2
              /\ attachments[1].color = "danger"
              /\ attachments[2].color = "danger"
              /\ HasMainField("Exception")
              /\ ~HasMainField("Runtime")

\* the end-to-end case: FAILED, an exception, no runtime, a 3-line traceback
C8_Witness ==
    /\ Rendered
    /\ event.state = FAILED
    /\ event.state \in STATES_EXCEPTION
    /\ NonEmptyStr(event.exception)
    /\ event.runtime.t = "None"
    /\ HasTraceback
    /\ NumLines(event.traceback.v) = 3
    /\ Len(attachments) = 2
    /\ attachments[2].text = InBlock(event.traceback.v)

----------------------------------------------------------------------------
(* C10 *)

FieldOrder ==
    << "Application", "Environment", "Task worker", "Task state", "Task uuid",
       "Exception", "Runtime", "Queue", "Retries", "Arguments",
       "Keyword Arguments", "Note" >>

OrderIndex(title) == CHOOSE k \in 1..Len(FieldOrder) : FieldOrder[k] = title

\* C10: the titles of the main attachment's fields are a subsequence of the
\* fixed order, none repeated; the first five are always there, short except
\* Task uuid; Exception, Runtime and Queue are there iff the event's field is
\* truthy (runtime = 0 leaves Runtime out); Note is there iff extra has a
\* non-empty note.
C10_FieldOrder ==
    Rendered =>
        /\ \A i \in 1..Len(MainFields) :
              \E k \in 1..Len(FieldOrder) : FieldOrder[k] = MainFields[i].title
        /\ \A i, j \in 1..Len(MainFields) :
              i < j => OrderIndex(MainFields[i].title) < OrderIndex(MainFields[j].title)
        /\ Len(MainFields) >= 5
        /\ \A i \in 1..5 :
              /\ MainFields[i].title = FieldOrder[i]
              /\ MainFields[i].short = (i # 5)
        /\ HasMainField("Exception") <=> NonEmptyStr(event.exception)
        /\ HasMainField("Runtime") <=> (event.runtime.t = "int" /\ event.runtime.v # 0)
        /\ HasMainField("Queue") <=> NonEmptyStr(event.queue)
        /\ HasMainField("Note") <=>
              ("note" \in DOMAIN extra /\ NonEmptyStr(extra["note"]))

\* runtime = 0 and a note: Runtime is left out, Note closes the list
C10_Witness ==
    /\ Rendered
    /\ event.runtime.t = "int"
    /\ event.runtime.v = 0
    /\ NonEmptyStr(event.exception)
    /\ ~HasMainField("Runtime")
    /\ HasMainField("Exception")
    /\ MainFields[Len(MainFields)].title = "Note"

====
